---- MODULE Spec2Model ----
(***************************************************************************)
(* EchoPay backend: contact directory (models/Contact.js), command parser  *)
(* (utlis/commandParser.js), command execution entry point (app.js) and    *)
(* the transfer / balance executor (services/blockchainService.js).        *)
(*                                                                         *)
(* Text is a sequence of one-character strings, so that lowercasing,       *)
(* trimming, stripping and the regular expressions are computed and not    *)
(* assumed.  A BigNumber is a sequence of decimal digits, most significant *)
(* first, without leading zeros.                                           *)
(***************************************************************************)
EXTENDS Integers, Sequences, FiniteSets, TLC

(***************************************************************************)
(* Bounds                                                                  *)
(***************************************************************************)
MaxNameLen == 2
MaxContacts == 2

(***************************************************************************)
(* Characters and strings                                                  *)
(***************************************************************************)
UpperChars == <<"A","B","C","D","E","F","G","H","I","J","K","L","M",
                "N","O","P","Q","R","S","T","U","V","W","X","Y","Z">>
LowerChars == <<"a","b","c","d","e","f","g","h","i","j","k","l","m",
                "n","o","p","q","r","s","t","u","v","w","x","y","z">>
DigitChars == <<"0","1","2","3","4","5","6","7","8","9">>

Range(s) == {s[i] : i \in 1..Len(s)}

UpperSet == Range(UpperChars)
LowerSet == Range(LowerChars)
DigitSet == Range(DigitChars)
HexSet == DigitSet \cup {"a","b","c","d","e","f","A","B","C","D","E","F"}
SpaceSet == {" "}
LetterSet == UpperSet \cup LowerSet
WordSet == LetterSet \cup DigitSet \cup {"_"}

IsUpper(c) == c \in UpperSet
IsLower(c) == c \in LowerSet
IsLetter(c) == c \in LetterSet
IsDigit(c) == c \in DigitSet
IsSpace(c) == c \in SpaceSet
IsWordChar(c) == c \in WordSet
IsHex(c) == c \in HexSet

LowerOf == [c \in UpperSet |-> LowerChars[CHOOSE i \in 1..26 : UpperChars[i] = c]]
UpperOf == [c \in LowerSet |-> UpperChars[CHOOSE i \in 1..26 : LowerChars[i] = c]]

Lower(c) == IF IsUpper(c) THEN LowerOf[c] ELSE c
Upper(c) == IF IsLower(c) THEN UpperOf[c] ELSE c

ToLower(s) == [i \in 1..Len(s) |-> Lower(s[i])]
ToUpper(s) == [i \in 1..Len(s) |-> Upper(s[i])]

SetMin(S) == CHOOSE x \in S : \A y \in S : x <= y
SetMax(S) == CHOOSE x \in S : \A y \in S : y <= x

Trim(s) ==
  LET keep == {i \in 1..Len(s) : ~IsSpace(s[i])}
  IN IF keep = {} THEN <<>> ELSE SubSeq(s, SetMin(keep), SetMax(keep))

\* name.replace(/[^\w\s]/g, '')
StripNonWord(s) == SelectSeq(s, LAMBDA c : IsWordChar(c) \/ IsSpace(c))

\* all texts over an alphabet, of length 0..n
SeqsUpTo(A, n) == UNION {[1..k -> A] : k \in 0..n}

(***************************************************************************)
(* Contact directory: models/Contact.js                                    *)
(***************************************************************************)
NoContact == [name |-> <<"-">>, address |-> <<"-">>, none |-> TRUE]
Absent == <<"absent">>

MkContact(n, a) == [name |-> n, address |-> a, none |-> FALSE]

\* schema setters of the name path: lowercase, trim
CastName(n) == Trim(ToLower(n))

\* required: true on a string path
RequiredOK(v) == v # <<>>

\* /^0x[a-fA-F0-9]{40}$/
AddressFormatOK(a) ==
  /\ Len(a) = 42
  /\ a[1] = "0"
  /\ a[2] = "x"
  /\ \A i \in 3..42 : IsHex(a[i])

Ids == 1..MaxContacts

StoredIds(cs) == {i \in Ids : ~cs[i].none}

\* the _id of a new document
FreshId(cs) == SetMin(Ids \ StoredIds(cs))

\* the unique index on name
NameTaken(cs, n, self) == \E i \in StoredIds(cs) \ {self} : cs[i].name = n

\* Contact.findOne({ name: v }): the filter value is cast by the schema
FindOneExact(cs, v) == {i \in StoredIds(cs) : cs[i].name = CastName(v)}

\* Contact.findOne({ name: { $regex: new RegExp('^' + v + '$', 'i') } });
\* v holds only word characters and whitespace, so it matches literally
FindOneRegex(cs, v) == {i \in StoredIds(cs) : ToLower(cs[i].name) = ToLower(v)}

NormalizeLookup(name) == StripNonWord(Trim(ToLower(name)))

\* the ids findByName may return; {} is null
findByName(cs, name) ==
  LET normalizedName == NormalizeLookup(name)
  IN IF FindOneExact(cs, normalizedName) # {}
     THEN FindOneExact(cs, normalizedName)
     ELSE FindOneRegex(cs, normalizedName)

VARIABLES contacts, dirResp

dirVars == <<contacts, dirResp>>

NoResp == [op |-> "none", status |-> "none"]

createNoUnique(name, address) ==
  LET n == CastName(name)
  IN IF ~RequiredOK(n) \/ ~RequiredOK(address) \/ ~AddressFormatOK(address)
     THEN /\ dirResp' = [op |-> "create", status |-> "ValidationError"]
          /\ UNCHANGED contacts
     ELSE /\ Ids \ StoredIds(contacts) # {}
          /\ contacts' = [contacts EXCEPT ![FreshId(contacts)] = MkContact(n, address)]
          /\ dirResp' = [op |-> "create", status |-> "created"]

\* ContactRepository.create
create(name, address) ==
  LET n == CastName(name)
  IN IF ~RequiredOK(n) \/ ~RequiredOK(address) \/ ~AddressFormatOK(address)
     THEN /\ dirResp' = [op |-> "create", status |-> "ValidationError"]
          /\ UNCHANGED contacts
     ELSE IF NameTaken(contacts, n, 0)
     THEN /\ dirResp' = [op |-> "create", status |-> "ContactDuplicate"]
          /\ UNCHANGED contacts
     ELSE /\ Ids \ StoredIds(contacts) # {}
          /\ contacts' = [contacts EXCEPT ![FreshId(contacts)] = MkContact(n, address)]
          /\ dirResp' = [op |-> "create", status |-> "created"]

updateNoValidators(id, name, address) ==
  LET n == IF name = Absent THEN Absent ELSE CastName(name)
  IN IF id \notin StoredIds(contacts)
     THEN /\ dirResp' = [op |-> "update", status |-> "NotFound"]
          /\ UNCHANGED contacts
     ELSE IF n # Absent /\ NameTaken(contacts, n, id)
     THEN /\ dirResp' = [op |-> "update", status |-> "ContactDuplicate"]
          /\ UNCHANGED contacts
     ELSE /\ contacts' = [contacts EXCEPT ![id] =
               MkContact(IF n = Absent THEN @.name ELSE n,
                         IF address = Absent THEN @.address ELSE address)]
          /\ dirResp' = [op |-> "update", status |-> "updated"]

\* ContactRepository.update: findByIdAndUpdate(id, updateData,
\* { new: true, runValidators: true }); a field of updateData may be absent
update(id, name, address) ==
  LET n == IF name = Absent THEN Absent ELSE CastName(name)
      bad == \/ (n # Absent /\ ~RequiredOK(n))
             \/ (address # Absent /\ ~AddressFormatOK(address))
  IN IF bad
     THEN /\ dirResp' = [op |-> "update", status |-> "ValidationError"]
          /\ UNCHANGED contacts
     ELSE IF id \notin StoredIds(contacts)
     THEN /\ dirResp' = [op |-> "update", status |-> "NotFound"]
          /\ UNCHANGED contacts
     ELSE IF n # Absent /\ NameTaken(contacts, n, id)
     THEN /\ dirResp' = [op |-> "update", status |-> "ContactDuplicate"]
          /\ UNCHANGED contacts
     ELSE /\ contacts' = [contacts EXCEPT ![id] =
               MkContact(IF n = Absent THEN @.name ELSE n,
                         IF address = Absent THEN @.address ELSE address)]
          /\ dirResp' = [op |-> "update", status |-> "updated"]

\* ContactRepository.delete
delete(id) ==
  IF id \in StoredIds(contacts)
  THEN /\ contacts' = [contacts EXCEPT ![id] = NoContact]
       /\ dirResp' = [op |-> "delete", status |-> "deleted"]
  ELSE /\ dirResp' = [op |-> "delete", status |-> "NotFound"]
       /\ UNCHANGED contacts

(***************************************************************************)
(* Regular expressions of the two parsers                                  *)
(***************************************************************************)
\* end of the longest run of characters of the class C that starts at i
\* (i - 1 when s[i] is not in C)
RunEnd(s, i, C) ==
  LET bad == {k \in i..Len(s) : s[k] \notin C}
  IN IF bad = {} THEN (IF i > Len(s) THEN i - 1 ELSE Len(s)) ELSE SetMin(bad) - 1

\* The matchers below walk the text: each takes the position i where its
\* piece of the pattern starts and gives the position after the piece, or 0
\* when the piece does not match (or i is 0 already).

\* C+ (greedy)
Run1(s, i, C) ==
  IF i = 0 \/ RunEnd(s, i, C) < i THEN 0 ELSE RunEnd(s, i, C) + 1

\* C* (greedy)
Run0(s, i, C) == IF i = 0 THEN 0 ELSE RunEnd(s, i, C) + 1

\* the literal w (lowercase) at position i, case-insensitive
LitAt(s, i, w) ==
  /\ i >= 1
  /\ i + Len(w) - 1 <= Len(s)
  /\ ToLower(SubSeq(s, i, i + Len(w) - 1)) = w

Lit(s, i, w) == IF LitAt(s, i, w) THEN i + Len(w) ELSE 0

\* (?:w)?
OptLit(s, i, w) == IF LitAt(s, i, w) THEN i + Len(w) ELSE i

\* (?:\.\d+)?
OptFraction(s, i) ==
  IF Run1(s, Lit(s, i, <<".">>), DigitSet) # 0
  THEN Run1(s, Lit(s, i, <<".">>), DigitSet)
  ELSE i

NoMatch == [ok |-> FALSE]

\* send\s+(\d+(?:\.\d+)?)\s+([a-zA-Z]+)\s+to\s+(.+), /i, tried at position p
SendAmountStart(s, p) == Run1(s, Lit(s, p, <<"s","e","n","d">>), SpaceSet)
SendAmountEnd(s, p) == OptFraction(s, Run1(s, SendAmountStart(s, p), DigitSet))
SendTokenStart(s, p) == Run1(s, SendAmountEnd(s, p), SpaceSet)
SendTokenEnd(s, p) == Run1(s, SendTokenStart(s, p), LetterSet)
SendToEnd(s, p) == Lit(s, Run1(s, SendTokenEnd(s, p), SpaceSet), <<"t","o">>)
\* \s+(.+): at least one space, then at least one character of any kind;
\* the group starts after the spaces, or is the last space when nothing follows
SendRecipientStart(s, p) ==
  IF Run1(s, SendToEnd(s, p), SpaceSet) = 0 \/ SendToEnd(s, p) + 1 > Len(s) THEN 0
  ELSE IF Run1(s, SendToEnd(s, p), SpaceSet) > Len(s) THEN Len(s)
  ELSE Run1(s, SendToEnd(s, p), SpaceSet)

MatchSendAt(s, p) ==
  IF SendRecipientStart(s, p) = 0 THEN NoMatch
  ELSE [ok |-> TRUE,
        g1 |-> SubSeq(s, SendAmountStart(s, p), SendAmountEnd(s, p) - 1),
        g2 |-> SubSeq(s, SendTokenStart(s, p), SendTokenEnd(s, p) - 1),
        g3 |-> SubSeq(s, SendRecipientStart(s, p), Len(s))]

\* PATTERNS.SEND: anchored at both ends
MatchSend(s) == MatchSendAt(s, 1)

\* the regex of app.js: not anchored, the leftmost match wins
MatchSendAnywhere(s) ==
  IF {p \in 1..Len(s) : MatchSendAt(s, p).ok} = {} THEN NoMatch
  ELSE MatchSendAt(s, SetMin({p \in 1..Len(s) : MatchSendAt(s, p).ok}))

\* (?:v1|v2|v3) at position 1
Verb(s, verbs) ==
  IF {w \in verbs : LitAt(s, 1, w)} = {} THEN 0
  ELSE SetMax({Len(w) + 1 : w \in {v \in verbs : LitAt(s, 1, v)}})

\* \s+(?:my)?\s*
OptMy(s, i) == Run0(s, OptLit(s, Run1(s, i, SpaceSet), <<"m","y">>), SpaceSet)

BalanceVerbs == {<<"c","h","e","c","k">>, <<"s","h","o","w">>, <<"v","i","e","w">>}
ListVerbs == {<<"l","i","s","t">>, <<"s","h","o","w">>, <<"v","i","e","w">>}

\* ^(?:check|show|view)\s+(?:my)?\s*balance(?:\s+of\s+([a-zA-Z]+))?$
BalanceEnd(s) == Lit(s, OptMy(s, Verb(s, BalanceVerbs)), <<"b","a","l","a","n","c","e">>)
BalanceTokenStart(s) == Run1(s, Lit(s, Run1(s, BalanceEnd(s), SpaceSet), <<"o","f">>), SpaceSet)
BalanceTokenEnd(s) == Run1(s, BalanceTokenStart(s), LetterSet)

\* PATTERNS.CHECK_BALANCE
MatchCheckBalance(s) ==
  IF BalanceEnd(s) = 0 THEN NoMatch
  ELSE IF BalanceEnd(s) = Len(s) + 1 THEN [ok |-> TRUE, g1 |-> <<>>]
  ELSE IF BalanceTokenEnd(s) = Len(s) + 1
  THEN [ok |-> TRUE, g1 |-> SubSeq(s, BalanceTokenStart(s), Len(s))]
  ELSE NoMatch

\* PATTERNS.LIST_CONTACTS
MatchListContacts(s) ==
  IF Lit(s, OptMy(s, Verb(s, ListVerbs)), <<"c","o","n","t","a","c","t","s">>) = Len(s) + 1
  THEN [ok |-> TRUE]
  ELSE NoMatch

\* (0x[a-fA-F0-9]{40})$ at position i, /i
AddressAtEnd(s, i) ==
  /\ LitAt(s, i, <<"0","x">>)
  /\ Len(s) = i + 41
  /\ \A k \in i + 2..i + 41 : IsHex(s[k])

\* ^add\s+contact\s+([a-zA-Z0-9_]+)\s+(?:with\s+address\s+|as\s+)?(0x...)$
AddNameStart(s) ==
  Run1(s, Lit(s, Run1(s, Lit(s, 1, <<"a","d","d">>), SpaceSet),
              <<"c","o","n","t","a","c","t">>), SpaceSet)
AddNameEnd(s) == Run1(s, AddNameStart(s), WordSet)
AddAfterName(s) == Run1(s, AddNameEnd(s), SpaceSet)
AddAfterWith(s) ==
  Run1(s, Lit(s, Run1(s, Lit(s, AddAfterName(s), <<"w","i","t","h">>), SpaceSet),
              <<"a","d","d","r","e","s","s">>), SpaceSet)
AddAfterAs(s) == Run1(s, Lit(s, AddAfterName(s), <<"a","s">>), SpaceSet)
AddAddressStart(s) ==
  IF AddressAtEnd(s, AddAfterWith(s)) THEN AddAfterWith(s)
  ELSE IF AddressAtEnd(s, AddAfterAs(s)) THEN AddAfterAs(s)
  ELSE IF AddressAtEnd(s, AddAfterName(s)) THEN AddAfterName(s)
  ELSE 0

\* PATTERNS.ADD_CONTACT
MatchAddContact(s) ==
  IF AddAddressStart(s) = 0 THEN NoMatch
  ELSE [ok |-> TRUE,
        g1 |-> SubSeq(s, AddNameStart(s), AddNameEnd(s) - 1),
        g2 |-> SubSeq(s, AddAddressStart(s), Len(s))]

MY_TOKEN_ALIASES == {<<"M","Y","T","O","K","E","N">>,
                     <<"M","Y","-","T","O","K","E","N">>,
                     <<"M","Y","_","T","O","K","E","N">>}
MTK == <<"M","T","K">>
ALL == <<"A","L","L">>

AliasToken(t) == IF ToUpper(t) \in MY_TOKEN_ALIASES THEN MTK ELSE ToUpper(t)

ParserParseNoTrim(commandString) ==
  IF commandString = <<>> THEN [type |-> "null"]
  ELSE IF MatchSend(Trim(commandString)).ok
          \/ MatchCheckBalance(Trim(commandString)).ok
          \/ MatchAddContact(Trim(commandString)).ok
          \/ MatchListContacts(Trim(commandString)).ok
  THEN [type |-> "matched"]
  ELSE [type |-> "UNKNOWN", originalCommand |-> commandString]

\* utlis/commandParser.js parseCommand (null for an empty argument)
ParserParse(commandString) ==
  LET command == Trim(commandString)
  IN IF commandString = <<>> THEN [type |-> "null"]
     ELSE IF MatchSend(command).ok
     THEN [type |-> "SEND",
           amount |-> MatchSend(command).g1,
           token |-> AliasToken(MatchSend(command).g2),
           recipient |-> Trim(MatchSend(command).g3)]
     ELSE IF MatchCheckBalance(command).ok
     THEN [type |-> "CHECK_BALANCE",
           token |-> IF MatchCheckBalance(command).g1 = <<>> THEN ALL
                     ELSE AliasToken(MatchCheckBalance(command).g1)]
     ELSE IF MatchAddContact(command).ok
     THEN [type |-> "ADD_CONTACT",
           name |-> Trim(MatchAddContact(command).g1),
           address |-> MatchAddContact(command).g2]
     ELSE IF MatchListContacts(command).ok
     THEN [type |-> "LIST_CONTACTS"]
     ELSE [type |-> "UNKNOWN", originalCommand |-> command]

\* app.js parseCommand: null, or amount, token and lowercased recipient
AppParse(command) ==
  LET match == MatchSendAnywhere(command)
  IN IF ~match.ok THEN [ok |-> FALSE]
     ELSE [ok |-> TRUE,
           amount |-> match.g1,
           token |-> AliasToken(match.g2),
           recipient |-> ToLower(Trim(match.g3))]

(***************************************************************************)
(* BigNumber arithmetic and unit conversion (ethers)                       *)
(***************************************************************************)
DigitOf(c) == (CHOOSE i \in 1..10 : DigitChars[i] = c) - 1

\* drop leading zeros; zero is <<0>>
BnNorm(d) ==
  LET nz == {i \in 1..Len(d) : d[i] # 0}
  IN IF nz = {} THEN <<0>> ELSE SubSeq(d, SetMin(nz), Len(d))

\* BigNumber.lt
BnLt(a, b) ==
  \/ Len(a) < Len(b)
  \/ /\ Len(a) = Len(b)
     /\ \E i \in 1..Len(a) : a[i] < b[i] /\ \A j \in 1..i - 1 : a[j] = b[j]

\* a - b for b <= a
BnSub(a, b) ==
  LET n == Len(a)
      bp == [i \in 1..n |-> IF i <= n - Len(b) THEN 0 ELSE b[i - (n - Len(b))]]
      bor[i \in 1..n + 1] ==
        IF i = n + 1 THEN 0
        ELSE IF a[i] - bp[i] - bor[i + 1] < 0 THEN 1 ELSE 0
  IN BnNorm([i \in 1..n |-> (a[i] - bp[i] - bor[i + 1] + 10) % 10])

Zeros(k) == [i \in 1..k |-> 0]

ParseFail == <<-1>>

\* ethers.utils.parseUnits on text of the shape \d+(\.\d+)?
parseUnits(amount, decimals) ==
  LET dots  == {i \in 1..Len(amount) : amount[i] = "."}
      dot   == IF dots = {} THEN Len(amount) + 1 ELSE SetMin(dots)
      whole == [i \in 1..dot - 1 |-> DigitOf(amount[i])]
      frac0 == [i \in 1..(IF dots = {} THEN 0 ELSE Len(amount) - dot) |->
                  DigitOf(amount[dot + i])]
      nzf   == {i \in 1..Len(frac0) : frac0[i] # 0}
      frac  == IF nzf = {} THEN <<>> ELSE SubSeq(frac0, 1, SetMax(nzf))
  IN IF Len(frac) > decimals THEN ParseFail
     ELSE BnNorm(whole \o frac \o Zeros(decimals - Len(frac)))

(***************************************************************************)
(* Token registry: services/blockchainService.js                           *)
(***************************************************************************)
ETH == <<"E","T","H">>
USDC == <<"U","S","D","C">>
DAI == <<"D","A","I">>
USDT == <<"U","S","D","T">>
NATIVE == <<"N","A","T","I","V","E">>
null == <<"null">>

MTK_ADDRESS == <<"0","x","0","E","4","D","d","0","b","A","5","a","6","f",
    "1","b","c","0","f","f","F","E","4","2","1","d","b","B","8","E","2","5",
    "2","d","F","F","0","C","6","6","f","6">>
USDC_ADDRESS == <<"0","x","1","c","7","D","4","B","1","9","6","C","b","0",
    "C","7","B","0","1","d","7","4","3","F","b","c","6","1","1","6","a","9",
    "0","2","3","7","9","C","7","2","3","8">>
DAI_ADDRESS == <<"0","x","6","8","1","9","4","a","7","2","9","C","2","4",
    "5","0","a","d","2","6","0","7","2","b","3","D","3","3","A","D","a","C",
    "b","c","e","f","3","9","D","5","7","4">>
USDT_ADDRESS == <<"0","x","a","A","8","E","2","3","F","b","1","0","7","9",
    "E","A","7","1","e","0","a","5","6","F","4","8","a","2","a","A","5","1",
    "8","5","1","D","8","4","3","3","D","0">>

TOKEN_ADDRESSES ==
  (MTK :> MTK_ADDRESS) @@ (ETH :> NATIVE) @@ (USDC :> USDC_ADDRESS)
  @@ (DAI :> DAI_ADDRESS) @@ (USDT :> USDT_ADDRESS)

\* the initial content of the decimals cache
TOKEN_DECIMALS ==
  (MTK :> 18) @@ (USDC :> 6) @@ (ETH :> 18) @@ (DAI :> 18) @@ (USDT :> 6)

DEFAULT_SYMBOLS == <<ETH, MTK, USDC, DAI, USDT>>

getTokenAddress(tokenSymbol) ==
  IF tokenSymbol \in DOMAIN TOKEN_ADDRESSES THEN TOKEN_ADDRESSES[tokenSymbol] ELSE null

(***************************************************************************)
(* Addresses used as inputs                                                *)
(***************************************************************************)
Rep(c, n) == [i \in 1..n |-> c]

AddrLower == <<"0","x">> \o Rep("a", 40)
AddrUpper == <<"0","x">> \o Rep("B", 40)
\* a checksummed mixed-case address, and the same with one letter's case flipped
AddrChecksummed == USDC_ADDRESS
AddrBadChecksum == [USDC_ADDRESS EXCEPT ![4] = "C"]
AddrShort == <<"0","x">> \o Rep("a", 39)
AddrNoPrefix == Rep("a", 40)
AddrNotHex == <<"0","x">> \o Rep("g", 40)

\* the mixed-case addresses whose EIP-55 checksum is right
Checksummed == {MTK_ADDRESS, USDC_ADDRESS, DAI_ADDRESS, USDT_ADDRESS}

\* ethers.utils.isAddress: 40 hex digits, the 0x optional; mixed case must
\* carry the right checksum
isAddress(a) ==
  LET hex == IF Len(a) >= 2 /\ a[1] = "0" /\ a[2] = "x" THEN SubSeq(a, 3, Len(a)) ELSE a
      mixed == (\E i \in 1..Len(hex) : hex[i] \in {"a","b","c","d","e","f"})
               /\ (\E i \in 1..Len(hex) : hex[i] \in {"A","B","C","D","E","F"})
  IN /\ Len(hex) = 40
     /\ \A i \in 1..40 : IsHex(hex[i])
     /\ (mixed => (<<"0","x">> \o hex) \in Checksummed)

(***************************************************************************)
(* Inputs                                                                  *)
(***************************************************************************)
MaxReqs == 1
Reqs == 1..MaxReqs

SP == <<" ">>
T_Send == <<"S","e","n","d">>
T_please == <<"p","l","e","a","s","e">>
T_to == <<"t","o">>
T_mytoken == <<"m","y","t","o","k","e","n">>
T_XYZ == <<"X","Y","Z">>
N_Alice == <<"A","l","i","c","e">>
N_alice == <<"a","l","i","c","e">>
N_bob == <<"b","o","b">>
A_5 == <<"5">>
A_1_5 == <<"1",".","5">>
A_0 == <<"0">>
A_tiny == <<"0",".","0","0","0","0","0","0","1">>
CheckMyBalance == <<"c","h","e","c","k"," ","m","y"," ","b","a","l","a","n","c","e">>
ListContacts == <<"l","i","s","t"," ","c","o","n","t","a","c","t","s">>
Hello == <<"h","e","l","l","o">>

CmdSend(prefix, amount, token, recipient) ==
  prefix \o T_Send \o SP \o amount \o SP \o token \o SP \o T_to \o SP \o recipient

SendCommands ==
  {CmdSend(<<>>, A_5, USDC, N_Alice),
   CmdSend(T_please \o SP, A_5, USDC, N_Alice),
   CmdSend(<<>>, A_5, ETH, N_Alice),
   CmdSend(<<>>, A_5, T_XYZ, N_Alice),
   CmdSend(<<>>, A_5, USDC, N_bob),
   CmdSend(<<>>, A_5, ETH, N_bob),
   CmdSend(<<>>, A_5, T_XYZ, N_bob),
   CmdSend(<<>>, A_1_5, USDC, N_Alice),
   CmdSend(<<>>, A_0, USDC, N_Alice),
   CmdSend(<<>>, A_tiny, USDC, N_Alice),
   CmdSend(<<>>, A_5, T_mytoken, N_alice)}

Commands == SendCommands \cup {CheckMyBalance, ListContacts, Hello, <<>>}

\* the contacts the contact API is given beside the commands
ApiContacts == {<<N_Alice, AddrChecksummed>>, <<N_bob, AddrBadChecksum>>}
ApiAddresses == {AddrLower}

\* balances of the signing account
Bn5USDC == parseUnits(A_5, TOKEN_DECIMALS[USDC])
Bn5ETH == parseUnits(A_5, TOKEN_DECIMALS[ETH])
InitialBalances ==
  {(ETH :> Bn5ETH) @@ (USDC :> Bn5USDC) @@ (MTK :> Bn5ETH)
     @@ (DAI :> <<0>>) @@ (USDT :> <<0>>),
   (ETH :> BnSub(Bn5ETH, <<1>>)) @@ (USDC :> BnSub(Bn5USDC, <<1>>)) @@ (MTK :> <<0>>)
     @@ (DAI :> <<0>>) @@ (USDT :> <<0>>)}

(***************************************************************************)
(* Command execution: app.js POST /api/execute and                         *)
(* BlockchainService.sendTokens / sendEth                                  *)
(***************************************************************************)
VARIABLES req, txs, chainBal, tokenDecimals, balReq

\* the last call of the command parser, the calls of getTokenDecimals and the
\* decimals() the token contract answers
VARIABLES parsed, decReq, chainDecimals

unitVars == <<parsed, decReq, chainDecimals>>

NoTx == [status |-> "none", token |-> <<>>, to |-> <<>>, value |-> <<0>>]
NoError == [wrapped |-> FALSE, token |-> <<>>, cause |-> "none"]
NoHttp == [status |-> 0, error |-> NoError, suggestion |-> "none", transaction |-> NoTx,
           amount |-> <<>>, balances |-> <<>>]

IdleReq == [pc |-> "idle", command |-> <<>>, amount |-> <<>>, token |-> <<>>,
            recipient |-> <<>>, normalizedName |-> <<>>, contact |-> NoContact,
            units |-> <<0>>, balance |-> <<0>>, balanceRead |-> FALSE,
            invoked |-> FALSE, resp |-> NoHttp]

\* res.status(code).json({ error, suggestion })
Respond(q, code, cause, suggestion) ==
  [q EXCEPT !.pc = "done",
            !.resp = [NoHttp EXCEPT !.status = code,
                                    !.error = [NoError EXCEPT !.cause = cause],
                                    !.suggestion = suggestion]]

\* an error thrown by sendTokens outside its try block: app.js answers 500
Throw(q, cause) == Respond(q, 500, cause, "none")

ThrowUnwrapped(q, cause) == Respond(q, 500, cause, "none")

\* an error caught by sendTokens or sendEth and thrown again as
\* `Failed to send ${tokenSymbol}: ${error.message}`
ThrowWrapped(q, cause) ==
  [q EXCEPT !.pc = "done",
            !.resp = [NoHttp EXCEPT !.status = 500,
                                    !.error = [wrapped |-> TRUE, token |-> q.token,
                                               cause |-> cause]]]

\* getTokenDecimals on a cache hit; 0 when the contract has to be asked
CachedDecimals(cache, tokenSymbol) ==
  IF tokenSymbol \in DOMAIN cache /\ cache[tokenSymbol] # 0 THEN cache[tokenSymbol]
  ELSE IF tokenSymbol = ETH THEN 18
  ELSE 0

\* sendEth up to its balance read
sendEthStart(q) ==
  IF ~isAddress(q.contact.address) THEN Throw(q, "InvalidAddress")
  ELSE IF parseUnits(q.amount, 18) = ParseFail THEN ThrowWrapped(q, "InvalidAmount")
  ELSE [q EXCEPT !.pc = "balance", !.units = parseUnits(q.amount, 18)]

sendTokensStartWholeUnits(q, cache) ==
  IF ~isAddress(q.contact.address) THEN Throw(q, "InvalidAddress")
  ELSE IF q.token = ETH THEN sendEthStart(q)
  ELSE IF getTokenAddress(q.token) = null THEN Throw(q, "UnsupportedToken")
  ELSE IF parseUnits(q.amount, 0) = ParseFail THEN Throw(q, "InvalidAmount")
  ELSE [q EXCEPT !.pc = "balance", !.units = parseUnits(q.amount, 0)]

sendTokensStartNoAddressCheck(q, cache) ==
  IF q.token = ETH THEN sendEthStart(q)
  ELSE IF getTokenAddress(q.token) = null THEN Throw(q, "UnsupportedToken")
  ELSE IF parseUnits(q.amount, CachedDecimals(cache, q.token)) = ParseFail
  THEN Throw(q, "InvalidAmount")
  ELSE [q EXCEPT !.pc = "balance",
                 !.units = parseUnits(q.amount, CachedDecimals(cache, q.token))]

\* sendTokens up to its balance read
sendTokensStart(q, cache) ==
  IF ~isAddress(q.contact.address) THEN Throw(q, "InvalidAddress")
  ELSE IF q.token = ETH THEN sendEthStart(q)
  ELSE IF getTokenAddress(q.token) = null THEN Throw(q, "UnsupportedToken")
  ELSE IF CachedDecimals(cache, q.token) = 0 THEN [q EXCEPT !.pc = "decimals"]
  ELSE IF parseUnits(q.amount, CachedDecimals(cache, q.token)) = ParseFail
  THEN Throw(q, "InvalidAmount")
  ELSE [q EXCEPT !.pc = "balance",
                 !.units = parseUnits(q.amount, CachedDecimals(cache, q.token))]

\* POST /api/execute up to the first query of findByName
ExecuteStart(command) ==
  LET parsedCommand == AppParse(command)
      q == [IdleReq EXCEPT !.command = command]
  IN IF command = <<>> THEN Respond(q, 400, "CommandRequired", "none")
     ELSE IF ~parsedCommand.ok THEN Respond(q, 400, "InvalidCommandFormat", "usage")
     ELSE [q EXCEPT !.pc = "find1",
                    !.amount = parsedCommand.amount,
                    !.token = parsedCommand.token,
                    !.recipient = parsedCommand.recipient,
                    !.normalizedName = NormalizeLookup(parsedCommand.recipient)]

AfterFindIgnoreNull(q, contact, cache) ==
  sendTokensStart([q EXCEPT !.contact = contact], cache)

\* POST /api/execute from the answer of findByName on
AfterFind(q, contact, cache) ==
  IF contact.none
  THEN Respond(q, 404, "ContactNotFound", "addContact")
  ELSE sendTokensStart([q EXCEPT !.contact = contact], cache)

AfterBalanceNoCheck(q, balance) ==
  [q EXCEPT !.balance = balance, !.balanceRead = TRUE, !.invoked = TRUE, !.pc = "submit"]

AfterBalanceInverted(q, balance) ==
  IF BnLt(q.units, balance)
  THEN ThrowWrapped([q EXCEPT !.balance = balance, !.balanceRead = TRUE],
                    "InsufficientBalance")
  ELSE [q EXCEPT !.balance = balance, !.balanceRead = TRUE,
                 !.invoked = TRUE, !.pc = "submit"]

\* the balance comparison and, when it passes, the call of contract.transfer
\* or wallet.sendTransaction
AfterBalance(q, balance) ==
  IF BnLt(balance, q.units)
  THEN ThrowWrapped([q EXCEPT !.balance = balance, !.balanceRead = TRUE],
                    "InsufficientBalance")
  ELSE [q EXCEPT !.balance = balance, !.balanceRead = TRUE,
                 !.invoked = TRUE, !.pc = "submit"]

\* the TransferResult in the answer of app.js
Success(q, tx) ==
  [q EXCEPT !.pc = "done",
            !.resp = [NoHttp EXCEPT !.status = 200, !.transaction = tx,
                                    !.amount = q.amount]]

\* ExecuteStart of every command, evaluated once
ExecuteStartOf == [command \in Commands |-> ExecuteStart(command)]

Execute(r, command) ==
  /\ req[r].pc = "idle"
  /\ req' = [req EXCEPT ![r] = ExecuteStartOf[command]]
  /\ UNCHANGED <<contacts, dirResp, txs, chainBal, tokenDecimals, balReq, unitVars>>

FindExactSerial(r) ==
  /\ req[r].pc = "find1"
  /\ \A o \in DOMAIN req \ {r} : req[o].pc # "wait"
  /\ LET found == FindOneExact(contacts, req[r].normalizedName)
     IN IF found = {}
        THEN req' = [req EXCEPT ![r].pc = "find2"]
        ELSE \E i \in found :
               req' = [req EXCEPT ![r] = AfterFind(@, contacts[i], tokenDecimals)]
  /\ UNCHANGED <<contacts, dirResp, txs, chainBal, tokenDecimals, balReq, unitVars>>

\* the first query of findByName answers
FindExact(r) ==
  /\ req[r].pc = "find1"
  /\ LET found == FindOneExact(contacts, req[r].normalizedName)
     IN IF found = {}
        THEN req' = [req EXCEPT ![r].pc = "find2"]
        ELSE \E i \in found :
               req' = [req EXCEPT ![r] = AfterFind(@, contacts[i], tokenDecimals)]
  /\ UNCHANGED <<contacts, dirResp, txs, chainBal, tokenDecimals, balReq, unitVars>>

FindRegex(r) ==
  /\ req[r].pc = "find2"
  /\ LET found == FindOneRegex(contacts, req[r].normalizedName)
     IN IF found = {}
        THEN req' = [req EXCEPT ![r] = AfterFind(@, NoContact, tokenDecimals)]
        ELSE \E i \in found :
               req' = [req EXCEPT ![r] = AfterFind(@, contacts[i], tokenDecimals)]
  /\ UNCHANGED <<contacts, dirResp, txs, chainBal, tokenDecimals, balReq, unitVars>>

\* provider.getBalance / tokenContract.balanceOf answers, or fails
ReadBalance(r, ok) ==
  /\ req[r].pc = "balance"
  /\ req' = [req EXCEPT ![r] =
       IF ok THEN AfterBalance(@, chainBal[req[r].token])
       ELSE ThrowWrapped(@, "ChainError")]
  /\ UNCHANGED <<contacts, dirResp, txs, chainBal, tokenDecimals, balReq, unitVars>>

\* the node accepts the signed transaction, or refuses it
Submit(r, ok) ==
  /\ req[r].pc = "submit"
  /\ IF ok
     THEN /\ txs' = [txs EXCEPT ![r] = [status |-> "pending", token |-> req[r].token,
                                        to |-> req[r].contact.address,
                                        value |-> req[r].units]]
          /\ req' = [req EXCEPT ![r].pc = "wait"]
     ELSE /\ req' = [req EXCEPT ![r] = ThrowWrapped(@, "ChainError")]
          /\ UNCHANGED txs
  /\ UNCHANGED <<contacts, dirResp, chainBal, tokenDecimals, balReq, unitVars>>

\* the chain includes a pending transaction in a block
Mine(r) ==
  /\ txs[r].status = "pending"
  /\ IF BnLt(chainBal[txs[r].token], txs[r].value)
     THEN /\ txs' = [txs EXCEPT ![r].status = "reverted"]
          /\ UNCHANGED chainBal
     ELSE /\ txs' = [txs EXCEPT ![r].status = "confirmed"]
          /\ chainBal' = [chainBal EXCEPT ![txs[r].token] = BnSub(@, txs[r].value)]
  /\ UNCHANGED <<contacts, dirResp, req, tokenDecimals, balReq, unitVars>>

WaitNoConfirmation(r) ==
  /\ req[r].pc = "wait"
  /\ txs[r].status # "none"
  /\ req' = [req EXCEPT ![r] =
       IF txs[r].status = "reverted" THEN ThrowWrapped(@, "ChainError")
       ELSE Success(@, txs[r])]
  /\ UNCHANGED <<contacts, dirResp, txs, chainBal, tokenDecimals, balReq, unitVars>>

\* tx.wait() settles: the receipt, or the failure of a reverted transaction
Wait(r) ==
  /\ req[r].pc = "wait"
  /\ txs[r].status \in {"confirmed", "reverted"}
  /\ req' = [req EXCEPT ![r] =
       IF txs[r].status = "reverted" THEN ThrowWrapped(@, "ChainError")
       ELSE Success(@, txs[r])]
  /\ UNCHANGED <<contacts, dirResp, txs, chainBal, tokenDecimals, balReq, unitVars>>

\* POST /api/contacts, PUT /api/contacts/:id, DELETE /api/contacts/:id
ApiCreate(name, address) ==
  /\ create(name, address)
  /\ UNCHANGED <<req, txs, chainBal, tokenDecimals, balReq, unitVars>>

ApiUpdate(id, name, address) ==
  /\ update(id, name, address)
  /\ UNCHANGED <<req, txs, chainBal, tokenDecimals, balReq, unitVars>>

ApiDelete(id) ==
  /\ delete(id)
  /\ UNCHANGED <<req, txs, chainBal, tokenDecimals, balReq, unitVars>>

(***************************************************************************)
(* Balance queries: app.js GET /api/balance and                            *)
(* BlockchainService.getTokenBalance / getBalances                         *)
(***************************************************************************)
DigitText(d) == [i \in 1..Len(d) |-> DigitChars[d[i] + 1]]

\* ethers.utils.formatUnits
formatUnits(raw, decimals) ==
  LET padded == IF Len(raw) <= decimals THEN Zeros(decimals - Len(raw) + 1) \o raw ELSE raw
      whole  == BnNorm(SubSeq(padded, 1, Len(padded) - decimals))
      frac0  == SubSeq(padded, Len(padded) - decimals + 1, Len(padded))
      nz     == {i \in 1..Len(frac0) : frac0[i] # 0}
      frac   == IF nz = {} THEN <<0>> ELSE SubSeq(frac0, 1, SetMax(nz))
  IN IF decimals = 0 THEN DigitText(whole)
     ELSE DigitText(whole) \o <<".">> \o DigitText(frac)

PendingEntry(tokenSymbol) ==
  [state |-> "pending", token |-> tokenSymbol, balance |-> <<>>, balanceRaw |-> <<0>>,
   decimals |-> 0, error |-> "none"]

\* the object built in the catch block of getTokenBalance
ErrorEntry(tokenSymbol, cause) ==
  [state |-> "done", token |-> tokenSymbol, balance |-> <<"0">>, balanceRaw |-> <<0>>,
   decimals |-> 0, error |-> cause]

BalanceEntry(tokenSymbol, raw, decimals) ==
  [state |-> "done", token |-> tokenSymbol, balance |-> formatUnits(raw, decimals),
   balanceRaw |-> raw, decimals |-> decimals, error |-> "none"]

\* getTokenBalance up to its chain read
getTokenBalanceStart(tokenSymbol) ==
  IF tokenSymbol # ETH /\ getTokenAddress(tokenSymbol) = null
  THEN ErrorEntry(tokenSymbol, "UnsupportedToken")
  ELSE PendingEntry(tokenSymbol)

\* getTokenBalance from the answer (or failure) of its chain read on
getTokenBalanceEnd(tokenSymbol, ok, balance, cache) ==
  IF tokenSymbol = ETH
  THEN (IF ok THEN BalanceEntry(ETH, balance, 18) ELSE ErrorEntry(ETH, "ChainError"))
  ELSE BalanceEntry(tokenSymbol, IF ok THEN balance ELSE <<0>>,
                    CachedDecimals(cache, tokenSymbol))

IdleBalance == [pc |-> "idle", symbols |-> <<>>, entries |-> <<>>, failed |-> {},
                resp |-> <<>>]

NoToken == <<"-">>
T_eth == <<"e","t","h">>
TokenQueries == {NoToken, T_eth, USDC, T_XYZ}

\* GET /api/balance: one token (upper-cased), or getBalances() of the default set
Balance(token) ==
  /\ balReq.pc = "idle"
  /\ LET symbols == IF token = NoToken THEN DEFAULT_SYMBOLS ELSE <<ToUpper(token)>>
     IN balReq' = [balReq EXCEPT
          !.pc = "reading",
          !.symbols = symbols,
          !.entries = [i \in 1..Len(symbols) |-> getTokenBalanceStart(symbols[i])]]
  /\ UNCHANGED <<contacts, dirResp, req, txs, chainBal, tokenDecimals, unitVars>>

\* the symbol lists getBalances is called with beside its default
SymbolLists == {<<T_XYZ, USDC>>, <<USDC, T_XYZ, ETH>>, <<USDC, USDC>>}

\* getBalances(tokenSymbols): one getTokenBalance per symbol, in the order given
GetBalances(tokenSymbols) ==
  /\ balReq.pc = "idle"
  /\ balReq' = [balReq EXCEPT
       !.pc = "reading",
       !.symbols = tokenSymbols,
       !.entries = [i \in 1..Len(tokenSymbols) |-> getTokenBalanceStart(tokenSymbols[i])]]
  /\ UNCHANGED <<contacts, dirResp, req, txs, chainBal, tokenDecimals, unitVars>>

\* the chain read of one token answers, or fails
ReadTokenBalance(i, ok) ==
  /\ balReq.pc = "reading"
  /\ i \in 1..Len(balReq.entries)
  /\ balReq.entries[i].state = "pending"
  /\ balReq' = [balReq EXCEPT
       !.entries[i] = getTokenBalanceEnd(balReq.symbols[i], ok,
                                         chainBal[balReq.symbols[i]], tokenDecimals),
       !.failed = IF ok THEN @ ELSE @ \cup {i}]
  /\ UNCHANGED <<contacts, dirResp, req, txs, chainBal, tokenDecimals, unitVars>>

BalanceRespondDropErrors ==
  /\ balReq.pc = "reading"
  /\ \A i \in 1..Len(balReq.entries) : balReq.entries[i].state = "done"
  /\ balReq' = [balReq EXCEPT !.pc = "done",
                              !.resp = SelectSeq(balReq.entries,
                                                 LAMBDA e : e.error = "none")]
  /\ UNCHANGED <<contacts, dirResp, req, txs, chainBal, tokenDecimals, unitVars>>

\* Promise.all(balancePromises) settles and res.json answers
BalanceRespond ==
  /\ balReq.pc = "reading"
  /\ \A i \in 1..Len(balReq.entries) : balReq.entries[i].state = "done"
  /\ balReq' = [balReq EXCEPT !.pc = "done", !.resp = balReq.entries]
  /\ UNCHANGED <<contacts, dirResp, req, txs, chainBal, tokenDecimals, unitVars>>


(***************************************************************************)
(* The command parser called on its own: utlis/commandParser.js            *)
(* parseCommand beside the parseCommand of app.js                          *)
(***************************************************************************)
T_send == <<"s","e","n","d">>
T_MyToken == <<"M","y","T","o","k","e","n">>
T_hyphen == <<"-">>
T_underscore == <<"_">>
T_checkBalanceOf == <<"c","h","e","c","k"," ","b","a","l","a","n","c","e"," ","o","f"," ">>
T_showMyBalanceOf == <<"s","h","o","w"," ","m","y"," ","b","a","l","a","n","c","e"," ","o","f"," ">>
T_ViewBalanceOf == <<"V","i","e","w"," ","b","a","l","a","n","c","e"," ","o","f"," ">>

\* the three aliases in three letter cases
AliasBases == {T_mytoken, ToUpper(T_mytoken), T_MyToken}
AliasSpellings ==
  AliasBases
  \cup {SubSeq(a, 1, 2) \o T_hyphen \o SubSeq(a, 3, Len(a)) : a \in AliasBases}
  \cup {SubSeq(a, 1, 2) \o T_underscore \o SubSeq(a, 3, Len(a)) : a \in AliasBases}

AliasSendCommands ==
  {w \o SP \o amount \o SP \o alias \o SP \o T_to \o SP \o name :
     w \in {T_send, T_Send}, amount \in {A_5, A_1_5},
     alias \in AliasSpellings, name \in {N_Alice, N_bob}}

AliasBalanceCommands ==
  {w \o alias : w \in {T_checkBalanceOf, T_showMyBalanceOf, T_ViewBalanceOf},
                alias \in AliasSpellings}

Blank == <<" "," "," ">>
PaddedHello == <<" "," ","h","e","l","l","o"," ">>
BareBalance == <<"b","a","l","a","n","c","e">>
SendNoToken == <<"s","e","n","d"," ","5"," ","t","o"," ","a","l","i","c","e">>
AddContactBob == <<"a","d","d"," ","c","o","n","t","a","c","t"," ","b","o","b"," ">> \o AddrLower

OtherTexts ==
  {<<>>, Blank, Hello, PaddedHello, BareBalance, SendNoToken, AddContactBob,
   CheckMyBalance, ListContacts, CmdSend(<<>>, A_5, USDC, N_Alice),
   CmdSend(T_please \o SP, A_5, USDC, N_Alice)}

ParseInputs == AliasSendCommands \cup AliasBalanceCommands \cup OtherTexts

NoParse == [called |-> FALSE, text |-> <<>>, result |-> [type |-> "none"],
            inline |-> [ok |-> FALSE]]

\* parseCommand(text) of the parser module, and of app.js, return
Parse(text) ==
  /\ parsed' = [called |-> TRUE, text |-> text, result |-> ParserParse(text),
                inline |-> AppParse(text)]
  /\ UNCHANGED <<contacts, dirResp, req, txs, chainBal, tokenDecimals, balReq,
                 decReq, chainDecimals>>


(***************************************************************************)
(* Decimals resolution: BlockchainService.getTokenDecimals                 *)
(***************************************************************************)
MaxDecCalls == 3
DecCalls == 1..MaxDecCalls
DecSymbols == {MTK, USDC, ETH, T_XYZ}

\* what decimals() of the MTK contract may answer
OnChainDecimals == {0, 6, 18}

\* the decimals table as written, and with the MTK line left to the contract
DecimalsTables ==
  {TOKEN_DECIMALS, [s \in DOMAIN TOKEN_DECIMALS \ {MTK} |-> TOKEN_DECIMALS[s]]}

\* one call of getTokenDecimals: queried, answered and failed tell what its
\* contract call did, late that the contract had answered an earlier call
IdleDecimals == [pc |-> "idle", symbol |-> <<>>, queried |-> FALSE, answered |-> FALSE,
                 failed |-> FALSE, late |-> FALSE, kind |-> "none", value |-> 0]

DecValue(q, v) == [q EXCEPT !.pc = "done", !.kind = "value", !.value = v]

\* getTokenDecimals up to tokenContract.decimals()
getTokenDecimalsStart(q, cache) ==
  IF CachedDecimals(cache, q.symbol) # 0 THEN DecValue(q, CachedDecimals(cache, q.symbol))
  ELSE IF getTokenAddress(q.symbol) = null
  THEN [q EXCEPT !.pc = "done", !.kind = "UnsupportedToken"]
  ELSE [q EXCEPT !.pc = "query", !.queried = TRUE]

\* TOKEN_DECIMALS[tokenSymbol] || 18 of the catch block
FallbackDecimals(cache, tokenSymbol) ==
  IF tokenSymbol \in DOMAIN cache /\ cache[tokenSymbol] # 0 THEN cache[tokenSymbol]
  ELSE 18

GetTokenDecimals(p, tokenSymbol) ==
  /\ decReq[p].pc = "idle"
  /\ decReq' = [decReq EXCEPT ![p] =
       getTokenDecimalsStart(
         [@ EXCEPT !.symbol = tokenSymbol,
                   !.late = \E o \in DecCalls :
                              decReq[o].answered /\ decReq[o].symbol = tokenSymbol],
         tokenDecimals)]
  /\ UNCHANGED <<contacts, dirResp, req, txs, chainBal, tokenDecimals, balReq,
                 parsed, chainDecimals>>

\* tokenContract.decimals() answers and the answer is cached, or it fails
DecimalsAnswer(p, ok) ==
  /\ decReq[p].pc = "query"
  /\ IF ok
     THEN /\ tokenDecimals' =
               (decReq[p].symbol :> chainDecimals[decReq[p].symbol]) @@ tokenDecimals
          /\ decReq' = [decReq EXCEPT ![p] =
               DecValue([@ EXCEPT !.answered = TRUE], chainDecimals[decReq[p].symbol])]
     ELSE /\ decReq' = [decReq EXCEPT ![p] =
               DecValue([@ EXCEPT !.failed = TRUE],
                        FallbackDecimals(tokenDecimals, decReq[p].symbol))]
          /\ UNCHANGED tokenDecimals
  /\ UNCHANGED <<contacts, dirResp, req, txs, chainBal, balReq, parsed, chainDecimals>>

vars == <<contacts, dirResp, req, txs, chainBal, tokenDecimals, balReq, parsed, decReq, chainDecimals>>

Init ==
  /\ contacts = [i \in Ids |-> NoContact]
  /\ dirResp = NoResp
  /\ req = [r \in Reqs |-> IdleReq]
  /\ txs = [r \in Reqs |-> NoTx]
  /\ chainBal \in InitialBalances
  /\ tokenDecimals = TOKEN_DECIMALS
  /\ balReq = IdleBalance
  /\ parsed = NoParse
  /\ decReq = [p \in DecCalls |-> IdleDecimals]
  /\ chainDecimals = TOKEN_DECIMALS

Next ==
  \/ \E r \in Reqs, command \in Commands : Execute(r, command)
  \/ \E r \in Reqs : FindExact(r)
  \/ \E r \in Reqs : FindRegex(r)
  \/ \E r \in Reqs, ok \in BOOLEAN : ReadBalance(r, ok)
  \/ \E r \in Reqs, ok \in BOOLEAN : Submit(r, ok)
  \/ \E r \in Reqs : Mine(r)
  \/ \E r \in Reqs : Wait(r)
  \/ \E c \in ApiContacts : ApiCreate(c[1], c[2])
  \/ \E id \in Ids, address \in ApiAddresses : ApiUpdate(id, Absent, address)
  \/ \E id \in Ids : ApiDelete(id)

Spec == Init /\ [][Next]_vars

(***************************************************************************)
(* The contact directory on its own, with names drawn from an alphabet     *)
(***************************************************************************)
NameAlphabet == {"a", "A", ".", " "}
NameInputs == SeqsUpTo(NameAlphabet, MaxNameLen)
AddressInputs == {AddrLower, AddrUpper, AddrShort, AddrNoPrefix, AddrNotHex}

NextDir ==
  \/ \E name \in NameInputs, address \in AddressInputs : ApiCreate(name, address)
  \/ \E id \in Ids, name \in NameInputs \cup {Absent},
        address \in AddressInputs \cup {Absent} : ApiUpdate(id, name, address)
  \/ \E id \in Ids : ApiDelete(id)

InitDir ==
  /\ contacts = [i \in Ids |-> NoContact]
  /\ dirResp = NoResp
  /\ req = [r \in Reqs |-> IdleReq]
  /\ txs = [r \in Reqs |-> NoTx]
  /\ chainBal = CHOOSE b \in InitialBalances : TRUE
  /\ tokenDecimals = TOKEN_DECIMALS
  /\ balReq = IdleBalance
  /\ parsed = NoParse
  /\ decReq = [p \in DecCalls |-> IdleDecimals]
  /\ chainDecimals = TOKEN_DECIMALS

SpecDir == InitDir /\ [][NextDir]_vars
(***************************************************************************)
(* The balance entry point on its own                                      *)
(***************************************************************************)
NextBal ==
  \/ \E token \in TokenQueries : Balance(token)
  \/ \E tokenSymbols \in SymbolLists : GetBalances(tokenSymbols)
  \/ \E i \in 1..Len(DEFAULT_SYMBOLS), ok \in BOOLEAN : ReadTokenBalance(i, ok)
  \/ BalanceRespond

SpecBal == Init /\ [][NextBal]_vars

(***************************************************************************)
(* The parser on its own                                                   *)
(***************************************************************************)
NextParse == \E text \in ParseInputs : Parse(text)

SpecParse == Init /\ [][NextParse]_vars

(***************************************************************************)
(* Decimals resolution on its own                                          *)
(***************************************************************************)
InitDec ==
  /\ contacts = [i \in Ids |-> NoContact]
  /\ dirResp = NoResp
  /\ req = [r \in Reqs |-> IdleReq]
  /\ txs = [r \in Reqs |-> NoTx]
  /\ chainBal = CHOOSE b \in InitialBalances : TRUE
  /\ tokenDecimals \in DecimalsTables
  /\ balReq = IdleBalance
  /\ parsed = NoParse
  /\ decReq = [p \in DecCalls |-> IdleDecimals]
  /\ chainDecimals \in {[TOKEN_DECIMALS EXCEPT ![MTK] = d] : d \in OnChainDecimals}

NextDec ==
  \/ \E p \in DecCalls, tokenSymbol \in DecSymbols : GetTokenDecimals(p, tokenSymbol)
  \/ \E p \in DecCalls, ok \in BOOLEAN : DecimalsAnswer(p, ok)

SpecDec == InitDec /\ [][NextDec]_vars

(***************************************************************************)
(* Concurrent requests: one more handler of POST /api/execute than Spec    *)
(* has, beside a balance query and the contact API.  No step is forced:    *)
(* the chain may leave any transaction unconfirmed for ever.               *)
(***************************************************************************)
ConcReqs == 1..(MaxReqs + 1)
FirstReq == SetMin(ConcReqs)
ConcCommands == {CmdSend(<<>>, A_5, USDC, N_Alice), CmdSend(<<>>, A_1_5, USDC, N_Alice)}

InitConc ==
  /\ contacts = [i \in Ids |-> NoContact]
  /\ dirResp = NoResp
  /\ req = [r \in ConcReqs |-> IdleReq]
  /\ txs = [r \in ConcReqs |-> NoTx]
  /\ chainBal \in InitialBalances
  /\ tokenDecimals = TOKEN_DECIMALS
  /\ balReq = IdleBalance
  /\ parsed = NoParse
  /\ decReq = [p \in DecCalls |-> IdleDecimals]
  /\ chainDecimals = TOKEN_DECIMALS

NextConc ==
  \/ \E r \in ConcReqs, command \in ConcCommands : Execute(r, command)
  \/ \E r \in ConcReqs : FindExact(r)
  \/ \E r \in ConcReqs : FindRegex(r)
  \/ \E r \in ConcReqs, ok \in BOOLEAN : ReadBalance(r, ok)
  \/ \E r \in ConcReqs, ok \in BOOLEAN : Submit(r, ok)
  \/ \E r \in ConcReqs : Mine(r)
  \/ \E r \in ConcReqs : Wait(r)
  \/ ApiCreate(N_Alice, AddrChecksummed)
  \/ Balance(USDC)
  \/ \E ok \in BOOLEAN : ReadTokenBalance(1, ok)
  \/ BalanceRespond

SpecConc == InitConc /\ [][NextConc]_vars

(***************************************************************************)
(* Claims                                                                  *)
(***************************************************************************)
\* the amount of a request in the smallest unit of its token
UnitsOf(q) == parseUnits(q.amount, TOKEN_DECIMALS[q.token])

\* C1: on the native and on the token path, when the balance the executor
\* read is strictly less than the requested amount in the token's smallest
\* unit, the transfer fails with the insufficient-balance error and neither
\* wallet.sendTransaction nor contract.transfer is invoked for that command.
C1_InsufficientBalanceNoSubmission ==
  \A r \in Reqs :
    (req[r].balanceRead /\ BnLt(req[r].balance, UnitsOf(req[r])))
      => /\ req[r].pc = "done"
         /\ req[r].resp.status = 500
         /\ req[r].resp.error.cause = "InsufficientBalance"
         /\ req[r].resp.transaction = NoTx
         /\ ~req[r].invoked
         /\ txs[r].status = "none"

C1_Witness ==
  \E r \in Reqs :
    /\ req[r].balanceRead
    /\ req[r].token = ETH
    /\ BnLt(req[r].balance, UnitsOf(req[r]))
    /\ req[r].pc = "done"

\* C2: a transfer answers with a TransferResult only after the transaction
\* it submitted is confirmed: the balance check precedes the submission, the
\* submission precedes the confirmation, the confirmation precedes the
\* result, and no result is returned for a transfer that is pending or was
\* never submitted.
C2_ResultOnlyAfterConfirmation ==
  \A r \in Reqs :
    /\ req[r].invoked => (req[r].balanceRead /\ ~BnLt(req[r].balance, req[r].units))
    /\ txs[r].status # "none" => req[r].invoked
    /\ req[r].resp.status = 200 =>
         (txs[r].status = "confirmed" /\ req[r].resp.transaction = txs[r])
    /\ req[r].resp.transaction # NoTx => req[r].resp.status = 200

C2_Witness ==
  \E r \in Reqs : req[r].resp.status = 200 /\ txs[r].status = "confirmed"

\* C3: a command that the Command Parser classifies Unknown (also one whose
\* send phrase follows other words) is answered by the execution entry point
\* with the invalid-command response and its usage suggestion, and no
\* transfer is submitted for it.
C3_UnknownGetsInvalidCommand ==
  \A r \in Reqs :
    (req[r].pc # "idle" /\ ParserParse(req[r].command).type = "UNKNOWN")
      => /\ ~req[r].invoked
         /\ txs[r].status = "none"
         /\ req[r].pc = "done" =>
              /\ req[r].resp.status = 400
              /\ req[r].resp.error.cause = "InvalidCommandFormat"
              /\ req[r].resp.suggestion = "usage"

\* C4: when the recipient of a send command resolves to no contact, the
\* entry point answers recipient-not-found with the suggestion to add the
\* contact first, and the transfer executor is never invoked for the command:
\* no balance query, no submission.
C4_NotFoundAnswered ==
  \A r \in Reqs :
    (req[r].pc = "find2" /\ req'[r].pc # "find2"
       /\ findByName(contacts, req[r].recipient) = {})
      => /\ req'[r].pc = "done"
         /\ req'[r].resp.status = 404
         /\ req'[r].resp.error.cause = "ContactNotFound"
         /\ req'[r].resp.suggestion = "addContact"

C4_ExecutorNotInvoked ==
  \A r \in Reqs :
    req[r].resp.status = 404
      => /\ req[r].contact.none
         /\ ~req[r].balanceRead
         /\ ~req[r].invoked
         /\ txs[r].status = "none"

C4_RecipientNotFound == [][C4_NotFoundAnswered]_vars /\ []C4_ExecutorNotInvoked

C4_Witness ==
  \E r \in Reqs :
    /\ req[r].pc = "done"
    /\ req[r].resp.status = 404
    /\ findByName(contacts, req[r].recipient) = {}

ExampleCommand == CmdSend(<<>>, A_5, USDC, N_Alice)

\* C5: every transfer submitted through the execution entry point goes to
\* the address stored for the contact its recipient text resolved to and
\* carries the token and the amount of the parsed command; "Send 5 USDC to
\* Alice" with alice stored transfers 5 * 10^6 units of USDC to alice's
\* stored address.
C5_Resolved ==
  \A r \in Reqs :
    req'[r].contact # req[r].contact
      => \E i \in findByName(contacts, AppParse(req'[r].command).recipient) :
           req'[r].contact = contacts[i]

C5_Submitted ==
  \A r \in Reqs :
    txs[r].status # "none"
      => /\ AppParse(req[r].command).ok
         /\ txs[r].to = req[r].contact.address
         /\ req[r].contact.name = CastName(NormalizeLookup(AppParse(req[r].command).recipient))
         /\ txs[r].token = AppParse(req[r].command).token
         /\ txs[r].value = parseUnits(AppParse(req[r].command).amount,
                                      TOKEN_DECIMALS[txs[r].token])
         /\ req[r].command = ExampleCommand =>
              /\ txs[r].token = USDC
              /\ txs[r].value = <<5,0,0,0,0,0,0>>
              /\ req[r].contact.name = N_alice

C5_TransferMatchesCommand == [][C5_Resolved]_vars /\ []C5_Submitted

C5_Witness ==
  \E r \in Reqs :
    /\ req[r].command = ExampleCommand
    /\ txs[r].status = "confirmed"
    /\ txs[r].to = AddrChecksummed
    /\ req[r].resp.status = 200

ZeroBalanceTexts == {<<"0">>, <<"0",".","0">>}

\* C6: in a multi-token balance request every requested token is answered,
\* and the entry of a token whose chain read failed reports a zero balance
\* together with an error annotation.
C6_FailedReadAnnotated ==
  (balReq.pc = "done" /\ Len(balReq.symbols) > 1)
    => /\ Len(balReq.resp) = Len(balReq.symbols)
       /\ \A i \in 1..Len(balReq.symbols) :
            /\ balReq.resp[i].token = balReq.symbols[i]
            /\ i \in balReq.failed =>
                 /\ balReq.resp[i].balance \in ZeroBalanceTexts
                 /\ balReq.resp[i].error # "none"

\* C7: "check my balance", a CheckBalance intent without a token, given to
\* the execution entry point is answered with the balance entries of the
\* default token set, not with an invalid-command or error response.
C7_CheckBalanceDispatched ==
  \A r \in Reqs :
    (req[r].pc = "done"
       /\ ParserParse(req[r].command).type = "CHECK_BALANCE"
       /\ ParserParse(req[r].command).token = ALL)
      => /\ req[r].resp.status = 200
         /\ Len(req[r].resp.balances) = Len(DEFAULT_SYMBOLS)
         /\ \A i \in 1..Len(DEFAULT_SYMBOLS) :
              req[r].resp.balances[i].token = DEFAULT_SYMBOLS[i]

\* C8: no two stored contacts have names that are equal after lowercasing
\* and trimming; an add answered ContactDuplicate leaves the directory as it
\* was, and an add that stores a contact stores a name no contact had.
C8_NamesDistinct ==
  \A i, j \in StoredIds(contacts) :
    i # j => CastName(contacts[i].name) # CastName(contacts[j].name)

C8_DuplicateRejected ==
  /\ (dirResp'.op = "create" /\ dirResp'.status = "ContactDuplicate")
       => contacts' = contacts
  /\ (dirResp'.op = "create" /\ dirResp'.status = "created")
       => \E i \in Ids \ StoredIds(contacts) :
            /\ contacts' = [contacts EXCEPT ![i] = contacts'[i]]
            /\ ~contacts'[i].none
            /\ \A j \in StoredIds(contacts) :
                 CastName(contacts[j].name) # CastName(contacts'[i].name)

C8_UniqueNames == []C8_NamesDistinct /\ [][C8_DuplicateRejected]_vars

C8_Witness ==
  /\ dirResp = [op |-> "create", status |-> "ContactDuplicate"]
  /\ Cardinality(StoredIds(contacts)) = 1

\* C9: after an add, findByName given the stored name returns that contact,
\* and so does findByName given the name in another letter case, for every
\* name add accepts, those with punctuation included.
C9_RoundTrip ==
  \A i \in StoredIds(contacts) :
    /\ findByName(contacts, contacts[i].name) = {i}
    /\ findByName(contacts, ToUpper(contacts[i].name)) = {i}

\* C10: every stored contact's address is 0x followed by exactly 40 hex
\* digits; add and update reject any other address, and a rejected add or
\* update leaves the stored records unchanged.
C10_AddressesValid ==
  \A i \in StoredIds(contacts) : AddressFormatOK(contacts[i].address)

C10_RejectedUnchanged ==
  dirResp'.status = "ValidationError" => contacts' = contacts

C10_StoredAddressFormat == []C10_AddressesValid /\ [][C10_RejectedUnchanged]_vars

C10_Witness ==
  /\ dirResp = [op |-> "update", status |-> "ValidationError"]
  /\ StoredIds(contacts) # {}

\* C11: for each of the aliases MYTOKEN, MY-TOKEN and MY_TOKEN, in any letter
\* case, "send <amount> <alias> to <name>" parses to a Send intent with token
\* MTK and "check balance of <alias>" to a CheckBalance intent with token MTK.
C11_AliasesYieldMTK ==
  parsed.called =>
    /\ parsed.text \in AliasSendCommands =>
         /\ parsed.result.type = "SEND"
         /\ parsed.result.token = MTK
         /\ parsed.inline.ok
         /\ parsed.inline.token = MTK
    /\ parsed.text \in AliasBalanceCommands =>
         /\ parsed.result.type = "CHECK_BALANCE"
         /\ parsed.result.token = MTK

\* a text none of the four patterns of the parser matches
MatchesNoPattern(text) ==
  /\ ~MatchSend(Trim(text)).ok
  /\ ~MatchCheckBalance(Trim(text)).ok
  /\ ~MatchAddContact(Trim(text)).ok
  /\ ~MatchListContacts(Trim(text)).ok

\* C12: for every text that matches none of the four patterns, the empty and
\* the whitespace-only text included, the parser returns the Unknown intent
\* carrying the trimmed text, never an absent result.
C12_UnknownForEveryText ==
  (parsed.called /\ MatchesNoPattern(parsed.text))
    => /\ parsed.result.type = "UNKNOWN"
       /\ parsed.result.originalCommand = Trim(parsed.text)

\* C12 as amended: the same for every text but the empty one, for which the
\* parser returns null.
C12_UnknownForNonEmptyText ==
  (parsed.called /\ MatchesNoPattern(parsed.text))
    => IF parsed.text = <<>>
       THEN parsed.result.type = "null"
       ELSE /\ parsed.result.type = "UNKNOWN"
            /\ parsed.result.originalCommand = Trim(parsed.text)

C12_Witness ==
  /\ parsed.called
  /\ parsed.text = PaddedHello
  /\ parsed.result.type = "UNKNOWN"
  /\ parsed.result.originalCommand = Hello

TransferValidated(q) ==
  /\ ~q.contact.none
  /\ isAddress(q.contact.address)
  /\ getTokenAddress(q.token) # null

\* C15: a transfer whose amount is zero, or has more fractional digits than
\* the decimals of its token, fails with InvalidAmount on the native and on
\* the token path, and nothing is submitted for it.
C15_InvalidAmountRejected ==
  \A r \in Reqs :
    (TransferValidated(req[r]) /\ UnitsOf(req[r]) \in {ParseFail, <<0>>})
      => /\ ~req[r].invoked
         /\ txs[r].status = "none"
         /\ req[r].pc = "done" =>
              /\ req[r].resp.status = 500
              /\ req[r].resp.error.cause = "InvalidAmount"

\* C16: a failure of the submission step or of the confirmation wait is
\* reported as the wrapped transfer failure that carries the token symbol and
\* the original cause, without a TransferResult; a command is answered once,
\* whatever the stage that failed.
C16_FailureWrapped ==
  \A r \in DOMAIN req :
    (req[r].pc = "done" /\ req[r].invoked /\ req[r].resp.status # 200)
      => /\ req[r].resp.status = 500
         /\ req[r].resp.error = [wrapped |-> TRUE, token |-> req[r].token,
                                 cause |-> "ChainError"]
         /\ req[r].resp.transaction = NoTx

C16_AnsweredOnce ==
  \A r \in DOMAIN req : req[r].pc = "done" => req'[r] = req[r]

C16_TransferFailed == []C16_FailureWrapped /\ [][C16_AnsweredOnce]_vars

C16_Witness ==
  \E r \in DOMAIN req :
    /\ txs[r].status = "reverted"
    /\ req[r].pc = "done"
    /\ req[r].resp.error.wrapped
    /\ req[r].resp.error.token = USDC

\* C17: a transfer to a destination that is no valid address fails with
\* InvalidAddress before any decimals query, conversion, balance query or
\* submission, for every token symbol, unregistered ones included.
C17_InvalidAddressFirst ==
  \A r \in Reqs :
    (~req[r].contact.none /\ ~isAddress(req[r].contact.address))
      => /\ req[r].pc = "done"
         /\ req[r].resp.status = 500
         /\ req[r].resp.error = [NoError EXCEPT !.cause = "InvalidAddress"]
         /\ req[r].units = IdleReq.units
         /\ ~req[r].balanceRead
         /\ ~req[r].invoked
         /\ txs[r].status = "none"

C17_Witness ==
  \E r \in Reqs :
    /\ req[r].pc = "done"
    /\ req[r].token = T_XYZ
    /\ req[r].contact.address = AddrBadChecksum
    /\ req[r].resp.error.cause = "InvalidAddress"

\* C18: while the first send command waits for a confirmation that may never
\* arrive, no step of another command is held back: every other send command
\* can take the next step of its handler up to its response, a balance query
\* can be issued and answered, and the contact API can act; every step of a
\* handler moves it forward, so a handler that is not held back finishes.
FirstWaits == req[FirstReq].pc = "wait" /\ txs[FirstReq].status = "pending"

C18_StepsReady ==
  FirstWaits =>
    /\ \A r \in ConcReqs \ {FirstReq} :
         /\ req[r].pc = "idle" => \A command \in ConcCommands : ENABLED Execute(r, command)
         /\ req[r].pc = "find1" => ENABLED FindExact(r)
         /\ req[r].pc = "find2" => ENABLED FindRegex(r)
         /\ req[r].pc = "balance" => ENABLED ReadBalance(r, TRUE)
         /\ req[r].pc = "submit" => ENABLED Submit(r, TRUE)
         /\ (req[r].pc = "wait" /\ txs[r].status = "pending") => ENABLED Mine(r)
         /\ (req[r].pc = "wait" /\ txs[r].status # "pending") => ENABLED Wait(r)
    /\ balReq.pc = "idle" => ENABLED Balance(USDC)
    /\ balReq.pc = "reading" =>
         \/ ENABLED ReadTokenBalance(1, TRUE)
         \/ ENABLED BalanceRespond
    /\ ENABLED ApiCreate(N_Alice, AddrChecksummed)

PcRank ==
  [pc \in {"idle", "find1", "find2", "decimals", "balance", "submit", "wait", "done"} |->
     CHOOSE n \in 1..8 :
       <<"idle", "find1", "find2", "decimals", "balance", "submit", "wait", "done">>[n] = pc]

C18_StepsAdvance ==
  \A r \in DOMAIN req : req'[r] # req[r] => PcRank[req'[r].pc] > PcRank[req[r].pc]

C18_OthersComplete == []C18_StepsReady /\ [][C18_StepsAdvance]_vars

C18_Witness ==
  /\ req[FirstReq].pc = "wait"
  /\ txs[FirstReq].status = "pending"
  /\ \E r \in ConcReqs \ {FirstReq} : req[r].resp.status = 200
  /\ balReq.pc = "done"

\* C19: the amounts of concurrently handled send commands of one token that
\* reach submission do not together exceed the balance of the signing
\* account as it stood before the first of them was submitted.
C19_JointBalance ==
  \A r, o \in DOMAIN req :
    (r # o /\ txs[r].status = "pending" /\ txs[o].status = "pending"
       /\ txs[r].token = txs[o].token
       /\ \A x \in DOMAIN req : txs[x].status \in {"none", "pending"})
      => /\ ~BnLt(chainBal[txs[r].token], txs[r].value)
         /\ ~BnLt(BnSub(chainBal[txs[r].token], txs[r].value), txs[o].value)

\* C19 as amended: each amount that reaches submission does not exceed the
\* balance its own command read; the balance precondition holds for each
\* transfer against its own balance read, not for the transfers jointly.
C19_PerTransferBalance ==
  \A r \in DOMAIN req :
    txs[r].status # "none"
      => /\ req[r].balanceRead
         /\ txs[r].value = req[r].units
         /\ ~BnLt(req[r].balance, txs[r].value)

C19_Witness ==
  \E r, o \in DOMAIN req :
    /\ r # o
    /\ txs[r].status = "pending" /\ txs[o].status = "pending"
    /\ txs[r].token = txs[o].token
    /\ BnLt(BnSub(chainBal[txs[r].token], txs[r].value), txs[o].value)

\* C20: getBalances answers with one entry per requested symbol, in the order
\* requested, each with the token it was asked for, whatever the order in
\* which the chain reads complete or fail; a symbol that is not registered
\* gets a zero-balance entry with an error annotation.
C20_OneEntryPerSymbol ==
  balReq.pc = "done"
    => /\ Len(balReq.resp) = Len(balReq.symbols)
       /\ \A i \in 1..Len(balReq.symbols) :
            /\ balReq.resp[i].token = balReq.symbols[i]
            /\ (balReq.symbols[i] # ETH /\ getTokenAddress(balReq.symbols[i]) = null)
                 => /\ balReq.resp[i].balance = <<"0">>
                    /\ balReq.resp[i].error = "UnsupportedToken"

C20_Witness ==
  /\ balReq.pc = "done"
  /\ balReq.symbols = <<USDC, T_XYZ, ETH>>
  /\ balReq.failed = {3}
  /\ balReq.resp[2].error = "UnsupportedToken"
  /\ balReq.resp[1].balanceRaw = chainBal[USDC]

====
